---- MODULE Spec2Model ----
(***************************************************************************)
(* The on-chain price ledger of smartcontract/src/lib.rs: AveragePrice     *)
(* with its two methods set_last_price and get_average_price.              *)
(*                                                                         *)
(* f64 is modelled by a small binary-float-like format: a value is NaN,    *)
(* +-infinity, or sign * mag where mag counts units of the smallest        *)
(* subnormal.  mag = 0 is zero, 0 < mag < MinNormalMag is subnormal,       *)
(* MinNormalMag <= mag <= MaxFiniteMag is normal, and a sum whose          *)
(* magnitude exceeds MaxFiniteMag overflows to infinity.  Addition is      *)
(* exact inside that range (rounding of the real format is not modelled).  *)
(***************************************************************************)
EXTENDS Integers, Sequences, FiniteSets, TLC

VARIABLES records, last, prev

vars == <<records, last, prev>>

\* ---------------------------------------------------------------- bounds
MaxLen == 6
MinNormalMag == 2
MaxFiniteMag == 8

\* ------------------------------------------------------ program constants
LAST_NUMBERS_FOR_AVERAGE == 5

RejectMsg == "Method set_last_price doesn't accept the number is neither zero, infinite, subnormal, or NaN"

NoRecordsMsg == "No records. Unable to calculate average value."

OutOfBoundsMsg == "Unexpected error: Array index out of bounds."

OverflowMsg == "attempt to subtract with overflow"

\* ------------------------------------------------------------- f64 values
Finite(s, m) == [nan |-> FALSE, inf |-> FALSE, sign |-> s, mag |-> m]

Infinite(s) == [nan |-> FALSE, inf |-> TRUE, sign |-> s, mag |-> 0]

NAN == [nan |-> TRUE, inf |-> FALSE, sign |-> 1, mag |-> 0]

INFINITY == Infinite(1)

NEG_INFINITY == Infinite(-1)

ZERO == Finite(1, 0)

NEG_ZERO == Finite(-1, 0)

Abs(n) == IF n < 0 THEN -n ELSE n

Sgn(n) == IF n < 0 THEN -1 ELSE 1

\* f64::classify, as used by f64::is_normal
classify(x) ==
    IF x.nan THEN "Nan"
    ELSE IF x.inf THEN "Infinite"
    ELSE IF x.mag = 0 THEN "Zero"
    ELSE IF x.mag < MinNormalMag THEN "Subnormal"
    ELSE "Normal"

\* a validator that only excludes NaN and the infinities (is_finite)
is_finite_only(x) == classify(x) \notin {"Nan", "Infinite"}

\* a validator that only excludes zero
is_not_zero(x) == classify(x) # "Zero"

is_normal(x) == classify(x) = "Normal"

\* f64 addition
fadd(a, b) ==
    IF a.nan \/ b.nan THEN NAN
    ELSE IF a.inf /\ b.inf THEN (IF a.sign = b.sign THEN a ELSE NAN)
    ELSE IF a.inf THEN a
    ELSE IF b.inf THEN b
    ELSE LET s == a.sign * a.mag + b.sign * b.mag
         IN  IF s = 0
             THEN (IF a.sign = -1 /\ b.sign = -1 THEN NEG_ZERO ELSE ZERO)
             ELSE IF Abs(s) > MaxFiniteMag THEN Infinite(Sgn(s))
             ELSE Finite(Sgn(s), Abs(s))

\* f64 ==
feq(a, b) ==
    /\ ~a.nan
    /\ ~b.nan
    /\ a.inf = b.inf
    /\ IF a.inf THEN a.sign = b.sign
       ELSE a.sign * a.mag = b.sign * b.mag

RECURSIVE GCD(_, _)
GCD(a, b) == IF b = 0 THEN a ELSE GCD(b, a % b)

\* The quotient of an f64 by a count converted with `as f64` (exact for
\* every length the model reaches).  The exact value num/den, in lowest
\* terms, stands for the float nearest to it.
Quot(isnan, isinf, s, n, d) ==
    [nan |-> isnan, inf |-> isinf, sign |-> s, num |-> n, den |-> d]

NoValue == Quot(FALSE, FALSE, 1, 0, 0)

fdiv(a, n) ==
    IF a.nan THEN Quot(TRUE, FALSE, 1, 0, 1)
    ELSE IF a.inf THEN Quot(FALSE, TRUE, a.sign, 0, 1)
    ELSE IF n = 0
         THEN (IF a.mag = 0 THEN Quot(TRUE, FALSE, 1, 0, 1)
               ELSE Quot(FALSE, TRUE, a.sign, 0, 1))
    ELSE IF a.mag = 0 THEN Quot(FALSE, FALSE, a.sign, 0, 1)
    ELSE LET g == GCD(a.mag, n)
         IN  Quot(FALSE, FALSE, a.sign, a.mag \div g, n \div g)

\* ------------------------------------------------- near_sdk Vector<f64>
None == [some |-> FALSE, v |-> ZERO]

Some(x) == [some |-> TRUE, v |-> x]

\* Vector::get with the code's 0-based index
get(recs, index) ==
    IF index >= Len(recs) THEN None ELSE Some(recs[index + 1])

\* a push that stores the new sample in front of the old ones
push_front(recs, x) == <<x>> \o recs

\* Vector::push
push(recs, x) == Append(recs, x)

\* self.records.iter().sum(): a left fold of + starting from 0.0
RECURSIVE iter_fold(_, _, _)
iter_fold(recs, i, acc) ==
    IF i > Len(recs) THEN acc
    ELSE iter_fold(recs, i + 1, fadd(acc, recs[i]))

iter_sum(recs) == iter_fold(recs, 1, ZERO)

\* ------------------------------------------------------- set_last_price
CallResult(out, m, recs) == [outcome |-> out, msg |-> m, records |-> recs]

\* a set_last_price that keeps only the newest LAST_NUMBERS_FOR_AVERAGE
set_last_price_ring(recs, price) ==
    IF ~is_normal(price)
    THEN CallResult("panic", RejectMsg, recs)
    ELSE LET r == push(recs, price)
         IN  CallResult("ok", "",
                 IF Len(r) > LAST_NUMBERS_FOR_AVERAGE THEN Tail(r) ELSE r)

set_last_price(recs, price) ==
    IF ~is_normal(price)
    THEN CallResult("panic", RejectMsg, recs)
    ELSE CallResult("ok", "", push(recs, price))

\* ---------------------------------------------------- get_average_price
\* the emptiness test left out
sum_is_zero_never(sum) == FALSE

\* `sum == 0.0`
sum_is_zero(sum) == feq(sum, ZERO)

Range(a, b) == [i \in 1..(b - a) |-> a + i - 1]

WindowRange(uf, pn, ix) == [underflow |-> uf, panics |-> pn, idx |-> ix]

\* a window with an inclusive upper bound, ..=len
window_range_inclusive(len, checks) ==
    IF len < LAST_NUMBERS_FOR_AVERAGE
    THEN WindowRange(TRUE, checks, <<>>)
    ELSE WindowRange(FALSE, FALSE, Range(len - LAST_NUMBERS_FOR_AVERAGE, len + 1))

\* a window over the whole ledger, 0..len
window_range_all(len, checks) == WindowRange(FALSE, FALSE, Range(0, len))

\* (len - LAST_NUMBERS_FOR_AVERAGE)..len over u64.  When the subtraction
\* underflows, a build with overflow checks panics and a build without
\* them wraps to a start above len, which makes the range empty.
window_range(len, checks) ==
    IF len < LAST_NUMBERS_FOR_AVERAGE
    THEN WindowRange(TRUE, checks, <<>>)
    ELSE WindowRange(FALSE, FALSE, Range(len - LAST_NUMBERS_FOR_AVERAGE, len))

Average(out, m, val, acc, uf) ==
    [outcome |-> out, msg |-> m, value |-> val, accessed |-> acc, underflow |-> uf]

\* the for loop: get(index).expect(..) then sum.add_assign(value)
RECURSIVE window_loop(_, _, _, _, _)
window_loop(recs, idx, i, sum, accessed) ==
    IF i > Len(idx)
    THEN Average("some", "", fdiv(sum, LAST_NUMBERS_FOR_AVERAGE), accessed, FALSE)
    ELSE LET value == get(recs, idx[i])
         IN  IF ~value.some
             THEN Average("panic", OutOfBoundsMsg, NoValue, accessed \cup {idx[i]}, FALSE)
             ELSE window_loop(recs, idx, i + 1, fadd(sum, value.v),
                              accessed \cup {idx[i]})

average(recs, checks) ==
    IF Len(recs) < LAST_NUMBERS_FOR_AVERAGE
    THEN LET sum == iter_sum(recs)
         IN  IF sum_is_zero(sum)
             THEN Average("panic", NoRecordsMsg, NoValue, {}, FALSE)
             ELSE Average("some", "", fdiv(sum, Len(recs)), {}, FALSE)
    ELSE LET w == window_range(Len(recs), checks)
         IN  IF w.panics
             THEN Average("panic", OverflowMsg, NoValue, {}, TRUE)
             ELSE [window_loop(recs, w.idx, 1, ZERO, {}) EXCEPT !.underflow = w.underflow]

GetResult(r, recs) == [res |-> r, records |-> recs]

\* a query that prunes the ledger down to the window it has just read
get_average_price_pruning(recs, checks) ==
    GetResult(average(recs, checks),
              IF Len(recs) > LAST_NUMBERS_FOR_AVERAGE
              THEN SubSeq(recs, Len(recs) - LAST_NUMBERS_FOR_AVERAGE + 1, Len(recs))
              ELSE recs)

\* &self: the ledger is read, never written
get_average_price(recs, checks) == GetResult(average(recs, checks), recs)

\* ---------------------------------------------------------- the callers
Subnormals == {Finite(s, m) : s \in {1, -1}, m \in 1..(MinNormalMag - 1)}

NegOne == Finite(-1, MinNormalMag)

Normals == {NegOne, Finite(1, MinNormalMag), Finite(1, MaxFiniteMag)}

Candidates ==
    {NAN, INFINITY, NEG_INFINITY, ZERO, NEG_ZERO} \cup Subnormals \cup Normals

Call(o, a, out, m, val, acc, uf) ==
    [op |-> o, arg |-> a, outcome |-> out, msg |-> m, value |-> val,
     accessed |-> acc, underflow |-> uf]

NoCall == Call("none", ZERO, "none", "", NoValue, {}, FALSE)

Seen(c) == [op |-> c.op, outcome |-> c.outcome, value |-> c.value]

\* impl Default for AveragePrice: an empty vector
Init ==
    /\ records = <<>>
    /\ last = NoCall
    /\ prev = Seen(NoCall)

SetLastPrice ==
    \E price \in Candidates :
        LET r == set_last_price(records, price)
        IN  /\ Len(r.records) <= MaxLen
            /\ records' = r.records
            /\ last' = Call("set_last_price", price, r.outcome, r.msg, NoValue, {}, FALSE)
            /\ prev' = Seen(last)

GetAveragePrice ==
    \E checks \in BOOLEAN :
        LET r == get_average_price(records, checks)
        IN  /\ records' = r.records
            /\ last' = Call("get_average_price", ZERO, r.res.outcome, r.res.msg,
                            r.res.value, r.res.accessed, r.res.underflow)
            /\ prev' = Seen(last)

Next == SetLastPrice \/ GetAveragePrice

Spec == Init /\ [][Next]_vars

\* ------------------------------------------------------------ properties
\* NaN, +-infinity, zero or subnormal
Rejectable(x) == x.nan \/ x.inf \/ x.mag < MinNormalMag

\* finite, nonzero and not subnormal
Acceptable(x) == ~x.nan /\ ~x.inf /\ x.mag >= MinNormalMag

IsPrefix(s, t) == Len(s) <= Len(t) /\ SubSeq(t, 1, Len(s)) = s

RECURSIVE SeqSum(_)
SeqSum(s) ==
    IF s = <<>> THEN ZERO
    ELSE fadd(SeqSum(SubSeq(s, 1, Len(s) - 1)), s[Len(s)])

LastK(s) == SubSeq(s, Len(s) - LAST_NUMBERS_FOR_AVERAGE + 1, Len(s))

IsSet(c) == c.op = "set_last_price"

IsGet(c) == c.op = "get_average_price"

\* C1: set_last_price with a NaN, infinite, zero or subnormal price aborts
\* with the rejection message and leaves the ledger exactly as it was.
C1_RejectedPriceLeavesLedger ==
    [][(IsSet(last') /\ Rejectable(last'.arg))
          => (/\ last'.outcome = "panic"
              /\ last'.msg = RejectMsg
              /\ records' = records)]_vars

C1_Witness ==
    /\ IsSet(last)
    /\ last.arg \in Subnormals
    /\ last.outcome = "panic"
    /\ Len(records) >= 1

C3_NegativeOneRejected ==
    [][(IsSet(last') /\ last'.arg = NegOne)
          => (/\ last'.outcome = "panic"
              /\ last'.msg = RejectMsg
              /\ records' = records)]_vars

\* C4: get_average_price on the empty ledger aborts with the no-records
\* message, returns no value, and the ledger stays empty.
C4_EmptyLedgerNoRecords ==
    [][(IsGet(last') /\ records = <<>>)
          => (/\ last'.outcome = "panic"
              /\ last'.msg = NoRecordsMsg
              /\ last'.value = NoValue
              /\ records' = <<>>)]_vars

C4_Witness ==
    /\ IsGet(last)
    /\ records = <<>>
    /\ last.outcome = "panic"
    /\ last.msg = NoRecordsMsg

\* C5: with 1 <= len < K, get_average_price does not abort and returns the
\* sum of all entries divided by len.
C5_ShortLedgerMean ==
    [][(/\ IsGet(last')
        /\ Len(records) >= 1
        /\ Len(records) < LAST_NUMBERS_FOR_AVERAGE)
          => (/\ last'.outcome = "some"
              /\ last'.value = fdiv(SeqSum(records), Len(records)))]_vars

\* C6: with len >= K, get_average_price returns the sum of the K most
\* recently appended entries divided by K; older entries have no influence.
C6_WindowMean ==
    [][(IsGet(last') /\ Len(records) >= LAST_NUMBERS_FOR_AVERAGE)
          => (/\ last'.outcome = "some"
              /\ last'.value = fdiv(SeqSum(LastK(records)), LAST_NUMBERS_FOR_AVERAGE)
              /\ last'.accessed =
                    (Len(records) - LAST_NUMBERS_FOR_AVERAGE)..(Len(records) - 1))]_vars

C6_Witness ==
    /\ IsGet(last)
    /\ Len(records) = LAST_NUMBERS_FOR_AVERAGE + 1
    /\ last.outcome = "some"
    /\ last.value = fdiv(SeqSum(LastK(records)), LAST_NUMBERS_FOR_AVERAGE)
    /\ last.value # fdiv(SeqSum(records), LAST_NUMBERS_FOR_AVERAGE)

\* C7: get_average_price never changes the ledger, and a second call right
\* after a first one has the same outcome and value.
C7_QueryReadOnly ==
    [][IsGet(last')
          => (/\ records' = records
              /\ IsGet(last) => Seen(last') = Seen(last))]_vars

C7_Witness ==
    /\ IsGet(last)
    /\ IsGet(prev)
    /\ last.outcome = "some"
    /\ prev = Seen(last)
    /\ Len(records) > LAST_NUMBERS_FOR_AVERAGE

\* C8: the ledger is append-only: every step keeps the old ledger as a
\* prefix of the new one and adds at most one element.
C8_AppendOnly ==
    [][IsPrefix(records, records') /\ Len(records') <= Len(records) + 1]_vars

C8_Witness ==
    /\ Len(records) > LAST_NUMBERS_FOR_AVERAGE
    /\ IsSet(last)
    /\ last.outcome = "ok"
    /\ IsGet(prev)

\* C9: every index get_average_price passes to Vector::get lies in
\* 0..len-1, len - K never underflows, and the out-of-bounds failure is
\* never raised.
C9_IndexInRange ==
    IsGet(last)
        => (/\ \A i \in last.accessed : 0 <= i /\ i < Len(records)
            /\ ~last.underflow
            /\ last.msg \notin {OutOfBoundsMsg, OverflowMsg})

C9_Witness ==
    /\ IsGet(last)
    /\ Len(records) > LAST_NUMBERS_FOR_AVERAGE
    /\ Cardinality(last.accessed) = LAST_NUMBERS_FOR_AVERAGE

\* C10: every element stored in the ledger is a value the validator
\* accepts: finite, nonzero, not subnormal, not NaN.
C10_StoredSamplesNormal ==
    \A i \in 1..Len(records) : Acceptable(records[i])

C10_Witness ==
    /\ Len(records) > LAST_NUMBERS_FOR_AVERAGE
    /\ IsSet(last)
    /\ last.outcome = "panic"
    /\ \E i \in 1..Len(records) : records[i].sign = -1

====
